---- MODULE Spec2Model ----
(***************************************************************************)
(* Model of src/src/credit.py: the wallet credit-score pipeline            *)
(*   main = load_data ; extract_features ; score_wallets ; to_csv          *)
(*                                                                         *)
(* Numbers.  Python floats are modelled by exact rationals <<n, d>> in     *)
(* lowest terms with d > 0; the rounding error of float arithmetic is not  *)
(* modelled.  NaN is the distinguished value NaN.  Infinite values do not  *)
(* arise from the decimal strings of the input pool.                       *)
(* pandas.  Chained in-place fillna (line 143) updates the frame, as in    *)
(* pandas without copy-on-write.                                           *)
(* Strings.  JSON / CSV scalars are strings; the conversions the code      *)
(* applies to them (str.lower, Decimal(), pd.to_datetime) are tables over  *)
(* the finite pool of strings the model draws its inputs from.             *)
(***************************************************************************)
EXTENDS Integers, Sequences, FiniteSets, TLC

-----------------------------------------------------------------------------
(* Bounds of the model.                                                    *)

MaxTx == 2            \* transactions in the JSON file
MaxWallets == 2       \* rows in the wallet CSV
MaxScorerTx == 3      \* transactions in the JSON file, scorer inputs
MaxRuns == 2          \* runs of the program on the same files

-----------------------------------------------------------------------------
(* Exact rational arithmetic standing for Python float arithmetic.         *)

Abs(x) == IF x < 0 THEN -x ELSE x

RECURSIVE Gcd(_, _)
Gcd(a, b) == IF b = 0 THEN a ELSE Gcd(b, a % b)

Norm(n, d) ==
    LET g == Gcd(Abs(n), Abs(d))
        s == IF d < 0 THEN -1 ELSE 1
    IN  <<(s * n) \div g, (s * d) \div g>>

Rat(n) == <<n, 1>>
RAdd(x, y) ==
    LET g == Gcd(x[2], y[2])
    IN  Norm(x[1] * (y[2] \div g) + y[1] * (x[2] \div g), (x[2] \div g) * y[2])
RSub(x, y) == RAdd(x, <<-y[1], y[2]>>)
RMul(x, y) == Norm(x[1] * y[1], x[2] * y[2])
RDiv(x, y) == Norm(x[1] * y[2], x[2] * y[1])
RLess(x, y) == x[1] * y[2] < y[1] * x[2]
RLeq(x, y) == x[1] * y[2] <= y[1] * x[2]

RECURSIVE Pow10(_)
Pow10(k) == IF k = 0 THEN 1 ELSE 10 * Pow10(k - 1)

NaN == <<0, 0>>       \* float('nan'): not a rational (denominator 0)
IsNaN(x) == x[2] = 0

-----------------------------------------------------------------------------
(* Strings and the conversions the code applies to them.                   *)

Absent == "<absent>"  \* the key is not in the JSON object (dict.get default)
Null == "<null>"      \* JSON null / Python None

\* str.lower() on the strings of the pool; other strings have no capitals.
UpperToLower ==
    [s \in {"0xA", "0xB", "Supply", "BORROW", "Repay", "LiquidationCall"} |->
        CASE s = "0xA" -> "0xa"
          [] s = "0xB" -> "0xb"
          [] s = "Supply" -> "supply"
          [] s = "BORROW" -> "borrow"
          [] s = "Repay" -> "repay"
          [] s = "LiquidationCall" -> "liquidationcall"]

Lower(s) == IF s \in DOMAIN UpperToLower THEN UpperToLower[s] ELSE s

\* pd.to_datetime(x, unit="s", errors="coerce"): seconds since the epoch,
\* or NaT when x is not a number.
NaT == -1
EpochSeconds ==
    [s \in {"0", "3600", "86400", "200000"} |->
        CASE s = "0" -> 0
          [] s = "3600" -> 3600
          [] s = "86400" -> 86400
          [] s = "200000" -> 200000]

ToDatetime(s) == IF s \in DOMAIN EpochSeconds THEN EpochSeconds[s] ELSE NaT

\* decimal.Decimal(x): a Decimal m * 10^e for a numeric string, TypeError
\* for None, decimal.InvalidOperation (an ArithmeticError) for any other
\* string.
DecimalStrings ==
    [s \in {"0", "1", "2", "3", "-5", "500", "2000000000000", "3000000000000000000"} |->
        CASE s = "0" -> [m |-> 0, e |-> 0]
          [] s = "1" -> [m |-> 1, e |-> 0]
          [] s = "2" -> [m |-> 2, e |-> 0]
          [] s = "3" -> [m |-> 3, e |-> 0]
          [] s = "-5" -> [m |-> -5, e |-> 0]
          [] s = "500" -> [m |-> 500, e |-> 0]
          [] s = "2000000000000" -> [m |-> 2, e |-> 12]
          [] s = "3000000000000000000" -> [m |-> 3, e |-> 18]]

DecimalRaises(s) ==
    IF s = Null THEN "TypeError"
    ELSE IF s \in DOMAIN DecimalStrings THEN "none"
    ELSE "InvalidOperation"

Decimal(s) == DecimalStrings[s]

\* amount > 1e12 for amount = m * 10^e (m is below 2^31 < 10^10).
GreaterThan1e12(a) ==
    IF a.e >= 12 THEN a.m * Pow10(a.e - 12) > 1
    ELSE IF 12 - a.e > 9 THEN FALSE
    ELSE a.m > Pow10(12 - a.e)

\* float(m * 10^e)
DecimalToFloat(a) ==
    IF a.e >= 0 THEN Rat(a.m * Pow10(a.e)) ELSE Norm(a.m, Pow10(-a.e))

\* float(m * 10^e) / 1e18
DecimalToFloatDiv1e18(a) ==
    IF a.e >= 18 THEN Rat(a.m * Pow10(a.e - 18)) ELSE Norm(a.m, Pow10(18 - a.e))

DecimalMul(a, b) == [m |-> a.m * b.m, e |-> a.e + b.e]

\* Lines 58-64: the try block of load_data.  The result is the usd_value,
\* or the exception that leaves the try block uncaught.
\* except (ValueError, TypeError) does not name decimal.InvalidOperation.
CaughtByExcept(exc) == exc \in {"ValueError", "TypeError"}

UsdValue(amount, price) ==
    LET ra == DecimalRaises(amount)
        rp == DecimalRaises(price)
        exc == IF ra # "none" THEN ra ELSE rp
    IN  IF exc # "none"
        THEN IF CaughtByExcept(exc)
             THEN [raised |-> "none", usd |-> Rat(0)]
             ELSE [raised |-> exc, usd |-> Rat(0)]
        ELSE LET a == Decimal(amount)
                 p == Decimal(price)
             IN  [raised |-> "none",
                  usd |-> IF GreaterThan1e12(a)
                          THEN DecimalToFloatDiv1e18(DecimalMul(a, p))
                          ELSE DecimalToFloat(DecimalMul(a, p))]

-----------------------------------------------------------------------------
(* State.                                                                  *)

VARIABLES
    json_file,      \* args.input:   [status, data]  (data: the JSON array)
    csv_file,       \* args.wallets: [status, wallet_id] (the wallet_id column)
    pc,             \* position of main: start, loaded, featured, scored, done, failed
    df,             \* canonical transaction records returned by load_data
    valid_wallets,  \* set of lower-cased requested wallets
    features_df,    \* one feature row per wallet that has records
    scores_df,      \* rows (wallet_id, score) returned by score_wallets
    output,         \* args.output: [written, rows]
    error,          \* exception that left main, or "none"
    calls,          \* stages that have returned in this run, in order
    run,            \* number of the current run of the program
    previous        \* args.output as it was when the current run started

vars == <<json_file, csv_file, pc, df, valid_wallets, features_df, scores_df,
          output, error, calls, run, previous>>

NoFile == [written |-> FALSE, rows |-> <<>>]

-----------------------------------------------------------------------------
(* Sequence helpers.                                                       *)

Range(s) == {s[i] : i \in 1..Len(s)}

RECURSIVE SeqsUpTo(_, _)
SeqsUpTo(S, n) ==
    IF n = 0 THEN {<<>>}
    ELSE LET shorter == SeqsUpTo(S, n - 1)
         IN  shorter \cup {Append(s, x) : s \in {t \in shorter : Len(t) = n - 1}, x \in S}

RECURSIVE Flatten(_)
Flatten(ss) == IF ss = <<>> THEN <<>> ELSE Head(ss) \o Flatten(Tail(ss))

RECURSIVE RSum(_)
RSum(s) == IF s = <<>> THEN Rat(0) ELSE RAdd(Head(s), RSum(Tail(s)))

SetMax(S) == CHOOSE x \in S : \A y \in S : y <= x
SetMin(S) == CHOOSE x \in S : \A y \in S : x <= y
RMax(S) == CHOOSE x \in S : \A y \in S : RLeq(y, x)
RMin(S) == CHOOSE x \in S : \A y \in S : RLeq(x, y)

\* The orders in which list(a_set) can enumerate a set of strings: the
\* iteration order of a Python set of str follows the per-process string
\* hash seed.
ListOrders(S) ==
    {s \in [1..Cardinality(S) -> S] : \A i, j \in 1..Cardinality(S) : s[i] = s[j] => i = j}

\* Lexicographic order of the lower-cased wallet strings of the pool.
WalletRank ==
    [s \in {"0xa", "0xb", "0xc"} |->
        CASE s = "0xa" -> 1
          [] s = "0xb" -> 2
          [] s = "0xc" -> 3]

\* df.sort_values(by=["wallet", "timestamp"])
RecordBefore(r1, r2) ==
    \/ WalletRank[r1.wallet] < WalletRank[r2.wallet]
    \/ r1.wallet = r2.wallet /\ r1.timestamp < r2.timestamp

RECURSIVE InsertSorted(_, _)
InsertSorted(r, s) ==
    IF s = <<>> THEN <<r>>
    ELSE IF RecordBefore(r, Head(s)) THEN <<r>> \o s
    ELSE <<Head(s)>> \o InsertSorted(r, Tail(s))

RECURSIVE SortValues(_)
SortValues(s) ==
    IF s = <<>> THEN <<>>
    ELSE InsertSorted(s[Len(s)], SortValues(SubSeq(s, 1, Len(s) - 1)))

-----------------------------------------------------------------------------
(* load_data                                                               *)

\* Line 33: set(wallet_df["wallet_id"].str.lower())
ValidWallets(column) == {Lower(column[i]) : i \in 1..Len(column)}

\* Lines 40-72: one iteration of the loop over raw_data.
\*   kind = "skip"   the transaction is dropped (continue)
\*   kind = "record" the canonical record rec is appended
\*   kind = "raise"  the exception exc leaves the loop
Normalize(tx, valid) ==
    LET wallet == Lower(IF tx.userWallet = Absent THEN "" ELSE tx.userWallet)
        ts == ToDatetime(tx.timestamp)
        value == UsdValue(IF tx.amount = Absent THEN "0" ELSE tx.amount,
                          IF tx.assetPriceUSD = Absent THEN "0" ELSE tx.assetPriceUSD)
        none == [kind |-> "skip", exc |-> "none", rec |-> <<>>]
    IN  IF wallet = "" \/ wallet \notin valid THEN none
        ELSE IF tx.timestamp = Absent \/ tx.action = Absent \/ ~tx.hasActionData THEN none
        ELSE IF ts = NaT THEN none
        ELSE IF value.raised # "none"
             THEN [kind |-> "raise", exc |-> value.raised, rec |-> <<>>]
        ELSE [kind |-> "record", exc |-> "none",
              rec |-> <<[wallet |-> wallet,
                         timestamp |-> ts,
                         action |-> Lower(tx.action),
                         usd_value |-> value.usd,
                         asset |-> IF tx.assetSymbol = Absent THEN "" ELSE tx.assetSymbol]>>]

\* Variant of IsEmptyJson: the check of line 19 left out.
IsEmptyJsonNever(raw_data) == FALSE

\* Line 19: not raw_data
IsEmptyJson(raw_data) == raw_data = <<>>

\* Lines 8-84.  The result is [exc, df, valid_wallets].
LoadResult(json, csv) ==
    LET fail(e) == [exc |-> e, df |-> <<>>, valid_wallets |-> {}]
        valid == ValidWallets(csv.wallet_id)
        steps == [i \in 1..Len(json.data) |-> Normalize(json.data[i], valid)]
        raising == {i \in 1..Len(json.data) : steps[i].kind = "raise"}
        records == Flatten([i \in 1..Len(json.data) |-> steps[i].rec])
    IN  IF json.status = "missing" THEN fail("FileNotFoundError")
        ELSE IF json.status = "malformed" THEN fail("ValueError")
        ELSE IF IsEmptyJson(json.data) THEN fail("ValueError")
        ELSE IF csv.status = "missing" THEN fail("FileNotFoundError")
        ELSE IF csv.status = "empty" THEN fail("ValueError")
        ELSE IF csv.status = "nocolumn" THEN fail("ValueError")
        ELSE IF raising # {} THEN fail(steps[SetMin(raising)].exc)
        ELSE [exc |-> "none", df |-> SortValues(records), valid_wallets |-> valid]

-----------------------------------------------------------------------------
(* extract_features                                                        *)

\* Series.nunique(): number of distinct values, None/NaN not counted.
NUnique(values) == Cardinality(Range(values) \ {Null})

\* Line 117: features_df.fillna(0), on the float columns of one row.
FillNa0(x) == IF IsNaN(x) THEN Rat(0) ELSE x

FillNaRow(f) ==
    [f EXCEPT !.avg_tx_usd = FillNa0(@), !.deposit_total = FillNa0(@),
              !.borrow_total = FillNa0(@), !.repay_total = FillNa0(@),
              !.borrow_deposit_ratio = FillNa0(@), !.repay_ratio = FillNa0(@)]

\* Lines 95-112: the feature row of one wallet's group.
Features(wallet, group) ==
    LET usd(actions) ==
            RSum([i \in 1..Len(SelectSeq(group, LAMBDA r : r.action \in actions)) |->
                     SelectSeq(group, LAMBDA r : r.action \in actions)[i].usd_value])
        times == {group[i].timestamp : i \in 1..Len(group)}
        deposit_total == usd({"supply", "mint"})
        borrow_total == usd({"borrow"})
        repay_total == usd({"repay"})
        liquidations == SelectSeq(group, LAMBDA r : r.action \in {"liquidationcall", "liquidateborrow"})
    IN  [wallet |-> wallet,
         num_tx |-> Len(group),
         active_days |-> ((SetMax(times) - SetMin(times)) \div 86400) + 1,
         avg_tx_usd |-> RDiv(RSum([i \in 1..Len(group) |-> group[i].usd_value]),
                             Rat(Len(group))),
         deposit_total |-> deposit_total,
         borrow_total |-> borrow_total,
         repay_total |-> repay_total,
         liquidation_count |-> Len(liquidations),
         borrow_deposit_ratio |->
             IF RLess(Rat(0), deposit_total) THEN RDiv(borrow_total, deposit_total) ELSE Rat(0),
         repay_ratio |->
             IF RLess(Rat(0), borrow_total) THEN RDiv(repay_total, borrow_total) ELSE Rat(0),
         unique_assets |-> NUnique([i \in 1..Len(group) |-> group[i].asset])]

\* df.groupby("wallet"): the group keys in sorted order.
RECURSIVE GroupKeys(_)
GroupKeys(S) ==
    IF S = {} THEN <<>>
    ELSE LET w == CHOOSE x \in S : \A y \in S : WalletRank[x] <= WalletRank[y]
         IN  <<w>> \o GroupKeys(S \ {w})

\* Lines 86-118.
ExtractFeatures(frame) ==
    IF frame = <<>> THEN <<>>
    ELSE LET keys == GroupKeys({frame[i].wallet : i \in 1..Len(frame)})
         IN  [k \in 1..Len(keys) |->
                 FillNaRow(Features(keys[k], SelectSeq(frame, LAMBDA r : r.wallet = keys[k])))]

-----------------------------------------------------------------------------
(* score_wallets                                                           *)

\* Lines 126-132.  Integer 0 / 0 in pandas is NaN; NaN propagates through
\* the sum.
ScoreRaw(f, unique_assets_max) ==
    IF unique_assets_max = 0 THEN NaN
    ELSE RAdd(RMul(f.repay_ratio, <<7, 20>>),
         RAdd(RMul(RSub(Rat(1), f.borrow_deposit_ratio), <<1, 4>>),
         RAdd(RMul(RDiv(Rat(1), Rat(1 + f.liquidation_count)), <<1, 5>>),
         RAdd(RMul(RDiv(Rat(f.num_tx), Rat(IF f.active_days = 0 THEN 1 ELSE f.active_days)), <<3, 20>>),
              RMul(RDiv(Rat(f.unique_assets), Rat(unique_assets_max)), <<1, 20>>)))))

\* numpy round(2): to the nearest hundredth, ties to even.
Round2(x) ==
    LET q == (100 * x[1]) \div x[2]
        r == 100 * x[1] - q * x[2]
        h == IF 2 * r > x[2] THEN q + 1
             ELSE IF 2 * r = x[2] THEN q + (q % 2)
             ELSE q
    IN  IF IsNaN(x) THEN NaN ELSE Norm(h, 100)

\* Variant of MinMaxScale: X * scale_ without the offset min_.
MinMaxScaleNoOffset(raw, x) ==
    LET seen == {raw[i] : i \in 1..Len(raw)} \ {NaN}
        data_range == RSub(RMax(seen), RMin(seen))
        scale == RDiv(Rat(1000), IF data_range = Rat(0) THEN Rat(1) ELSE data_range)
    IN  IF IsNaN(x) THEN NaN ELSE RMul(x, scale)

\* MinMaxScaler(feature_range=(0, 1000)).fit_transform on one column:
\* NaN is ignored by fit and kept by transform; a zero data range is
\* replaced by 1 before dividing.
MinMaxScale(raw, x) ==
    LET seen == {raw[i] : i \in 1..Len(raw)} \ {NaN}
        data_min == RMin(seen)
        data_range == RSub(RMax(seen), data_min)
        scale == RDiv(Rat(1000), IF data_range = Rat(0) THEN Rat(1) ELSE data_range)
    IN  IF IsNaN(x) THEN NaN
        ELSE RAdd(RMul(x, scale), RSub(Rat(0), RMul(data_min, scale)))

\* Variant of CreditScores: each row scaled against the rows up to it
\* instead of against the whole population.
CreditScoresRunning(features) ==
    LET unique_assets_max == SetMax({features[i].unique_assets : i \in 1..Len(features)})
        score_raw == [i \in 1..Len(features) |-> ScoreRaw(features[i], unique_assets_max)]
    IN  [i \in 1..Len(features) |->
            features[i] @@ [score_raw |-> score_raw[i],
                            credit_score |->
                                Round2(MinMaxScale(SubSeq(score_raw, 1, i), score_raw[i]))]]

\* Lines 126-135: features_df with the columns score_raw and credit_score
\* the function adds to it.
CreditScores(features) ==
    LET unique_assets_max == SetMax({features[i].unique_assets : i \in 1..Len(features)})
        score_raw == [i \in 1..Len(features) |-> ScoreRaw(features[i], unique_assets_max)]
    IN  [i \in 1..Len(features) |->
            features[i] @@ [score_raw |-> score_raw[i],
                            credit_score |-> Round2(MinMaxScale(score_raw, score_raw[i]))]]

\* Variant of FillNaScore: the fillna of line 143 without effect.
FillNaScoreSkipped(x) == x

\* scores_df["score"].fillna(0.0, inplace=True)
FillNaScore(x) == IF IsNaN(x) THEN Rat(0) ELSE x

\* Variant of MergeLeft: how="inner", left rows without a match are dropped.
MergeInner(all_wallets, scored) ==
    Flatten([i \in 1..Len(all_wallets) |->
        LET matches == SelectSeq(scored, LAMBDA s : s.wallet = all_wallets[i])
        IN  [k \in 1..Len(matches) |->
                [wallet_id |-> all_wallets[i], score |-> matches[k].credit_score]]])

\* Lines 137-143: all_wallets.merge(..., on="wallet_id", how="left"): one
\* row per matching right row, one NaN row for a left row without a match.
MergeLeft(all_wallets, scored) ==
    Flatten([i \in 1..Len(all_wallets) |->
        LET matches == SelectSeq(scored, LAMBDA s : s.wallet = all_wallets[i])
        IN  IF matches = <<>>
            THEN <<[wallet_id |-> all_wallets[i], score |-> NaN]>>
            ELSE [k \in 1..Len(matches) |->
                     [wallet_id |-> all_wallets[i], score |-> matches[k].credit_score]]])

\* Lines 120-145; order is the enumeration list(valid_wallets) yields.
\* The result is the returned frame and features_df as the call leaves it.
ScoreWalletsResult(features, order) ==
    IF features = <<>>
    THEN [scores |-> [i \in 1..Len(order) |-> [wallet_id |-> order[i], score |-> Rat(0)]],
          features |-> features]
    ELSE LET scored == CreditScores(features)
             merged == MergeLeft(order, scored)
         IN  [scores |-> [i \in 1..Len(merged) |->
                            [wallet_id |-> merged[i].wallet_id,
                             score |-> FillNaScore(merged[i].score)]],
              features |-> scored]

-----------------------------------------------------------------------------
(* main: lines 154-165.                                                    *)

\* df, valid_wallets = load_data(args.input, args.wallets)
LoadData ==
    /\ pc = "start"
    /\ LET res == LoadResult(json_file, csv_file)
       IN  IF res.exc = "none"
           THEN /\ df' = res.df
                /\ valid_wallets' = res.valid_wallets
                /\ calls' = Append(calls, "load_data")
                /\ pc' = "loaded"
                /\ error' = error
           ELSE /\ error' = res.exc
                /\ pc' = "failed"
                /\ UNCHANGED <<df, valid_wallets, calls>>
    /\ UNCHANGED <<json_file, csv_file, features_df, scores_df, output, run, previous>>

\* features_df = extract_features(df)
ExtractFeaturesStep ==
    /\ pc = "loaded"
    /\ features_df' = ExtractFeatures(df)
    /\ calls' = Append(calls, "extract_features")
    /\ pc' = "featured"
    /\ UNCHANGED <<json_file, csv_file, df, valid_wallets, scores_df, output, error, run, previous>>

\* scores_df = score_wallets(features_df, valid_wallets)
ScoreWallets ==
    /\ pc = "featured"
    /\ \E order \in ListOrders(valid_wallets) :
          LET res == ScoreWalletsResult(features_df, order)
          IN  /\ scores_df' = res.scores
              /\ features_df' = res.features
    /\ calls' = Append(calls, "score_wallets")
    /\ pc' = "scored"
    /\ UNCHANGED <<json_file, csv_file, df, valid_wallets, output, error, run, previous>>

\* Variant of SaveScores: the file is written in a finally clause, also
\* after a stage has raised.
SaveScoresFinally ==
    /\ pc \in {"scored", "failed"}
    /\ output' = [written |-> TRUE, rows |-> scores_df]
    /\ pc' = "done"
    /\ UNCHANGED <<json_file, csv_file, df, valid_wallets, features_df, scores_df, error, calls, run, previous>>

\* scores_df.to_csv(args.output, index=False)
SaveScores ==
    /\ pc = "scored"
    /\ output' = [written |-> TRUE, rows |-> scores_df]
    /\ pc' = "done"
    /\ UNCHANGED <<json_file, csv_file, df, valid_wallets, features_df, scores_df, error, calls, run, previous>>

\* The program is started again on the same files: a new process, whose
\* output file is the one the previous run left.
RunAgain ==
    /\ pc \in {"done", "failed"}
    /\ run < MaxRuns
    /\ run' = run + 1
    /\ previous' = output
    /\ pc' = "start"
    /\ df' = <<>>
    /\ valid_wallets' = {}
    /\ features_df' = <<>>
    /\ scores_df' = <<>>
    /\ error' = "none"
    /\ calls' = <<>>
    /\ UNCHANGED <<json_file, csv_file, output>>

-----------------------------------------------------------------------------
(* Inputs.                                                                 *)

\* Raw transactions: JSON objects with the keys the code reads.
Transactions(wallets, timestamps, actions, hasData, assets, amounts, prices) ==
    [userWallet : wallets, timestamp : timestamps, action : actions,
     hasActionData : hasData, assetSymbol : assets, amount : amounts,
     assetPriceUSD : prices]

JsonFiles(txs, n) ==
    {[status |-> "missing", data |-> <<>>], [status |-> "malformed", data |-> <<>>]}
        \cup {[status |-> "ok", data |-> d] : d \in SeqsUpTo(txs, n)}

CsvFiles(columns) ==
    {[status |-> st, wallet_id |-> <<>>] : st \in {"missing", "empty", "nocolumn"}}
        \cup {[status |-> "ok", wallet_id |-> c] : c \in columns}

\* Inputs of the pipeline runs: requested and other wallets, letter case,
\* missing keys, unparseable timestamps.
PipelineTxs ==
    Transactions({"0xA", "0xb", Absent}, {"0"}, {"Supply"}, {TRUE}, {"DAI"}, {"3"}, {"1"})
    \cup Transactions({"0xA"}, {"soon", Absent, "86400"}, {"Supply"}, {TRUE}, {"DAI"}, {"3"}, {"1"})
    \cup Transactions({"0xA"}, {"0"}, {"BORROW", Absent}, {TRUE}, {"DAI"}, {"1"}, {"1"})
    \cup Transactions({"0xb"}, {"0"}, {"Supply"}, {FALSE}, {Absent}, {Absent}, {Absent})

PipelineWallets == {"0xa", "0xA", "0xb"}

\* Inputs of the normalizer runs: amount, price and asset fields.
NormalizerTxs ==
    Transactions({"0xa"}, {"0"}, {"supply"}, {TRUE}, {"DAI", "", Absent, Null},
                 {"3", "-5", "not_a_number", Null, "3000000000000000000"},
                 {"2", "abc"})

\* Inputs of the scorer runs: action buckets, amounts, assets.
ScorerTxs ==
    Transactions({"0xa"}, {"0"}, {"supply", "repay"}, {TRUE}, {"DAI"}, {"1"}, {"1"})
    \cup Transactions({"0xa"}, {"0"}, {"borrow"}, {TRUE}, {"DAI"}, {"3"}, {"1"})
    \cup Transactions({"0xb"}, {"0"}, {"supply", "repay"}, {TRUE}, {Null}, {"1"}, {"1"})
    \cup Transactions({"0xb"}, {"0"}, {"borrow"}, {TRUE}, {Null}, {"3"}, {"1"})
    \cup Transactions({"0xc"}, {"0"}, {"supply"}, {TRUE}, {Null}, {"-5"}, {"1"})
    \cup Transactions({"0xc"}, {"200000"}, {"LiquidationCall"}, {TRUE}, {Null}, {"1"}, {"1"})
    \cup Transactions({"0xc"}, {"soon"}, {"supply"}, {TRUE}, {"DAI"}, {"1"}, {"1"})

InitFiles(jsons, csvs) ==
    /\ json_file \in jsons
    /\ csv_file \in csvs
    /\ pc = "start"
    /\ df = <<>>
    /\ valid_wallets = {}
    /\ features_df = <<>>
    /\ scores_df = <<>>
    /\ output = NoFile
    /\ error = "none"
    /\ calls = <<>>
    /\ run = 1
    /\ previous = NoFile

Init == InitFiles(JsonFiles(PipelineTxs, MaxTx),
                  CsvFiles(SeqsUpTo(PipelineWallets, MaxWallets)))

InitNormalizer == InitFiles(JsonFiles(NormalizerTxs, MaxTx), CsvFiles({<<"0xa">>}))

InitScorer == InitFiles(JsonFiles(ScorerTxs, MaxScorerTx), CsvFiles({<<"0xa", "0xb", "0xc">>}))

Next == LoadData \/ ExtractFeaturesStep \/ ScoreWallets \/ SaveScores

NextTwice == Next \/ RunAgain

Spec == Init /\ [][Next]_vars

SpecTwice == Init /\ [][NextTwice]_vars

SpecNormalizer == InitNormalizer /\ [][Next]_vars

SpecScorer == InitScorer /\ [][Next]_vars

-----------------------------------------------------------------------------
(* Properties.                                                             *)

FilesReadable == json_file.status = "ok" /\ csv_file.status = "ok"

\* The requested wallets: the identifiers of the wallet list, letter case
\* ignored.
Requested == {Lower(csv_file.wallet_id[i]) : i \in 1..Len(csv_file.wallet_id)}

\* Indices of the transactions of the JSON file that pass rules 1-3.
Surviving ==
    {i \in 1..Len(json_file.data) : Normalize(json_file.data[i], Requested).kind # "skip"}

RowsOf(rows, w) == {i \in 1..Len(rows) : rows[i].wallet_id = w}

HasRecords(w) == \E i \in 1..Len(df) : df[i].wallet = w

Stages == <<"load_data", "extract_features", "score_wallets">>

\* C1: when the pipeline completes, the output holds exactly one row for
\* every requested wallet and no other row, also when the wallet list names
\* an address twice or in different letter case.
OneRecordPerWallet ==
    pc = "done" =>
        /\ \A w \in Requested : Cardinality(RowsOf(output.rows, w)) = 1
        /\ \A i \in 1..Len(output.rows) : output.rows[i].wallet_id \in Requested

OneRecordPerWalletWitness ==
    /\ pc = "done"
    /\ Len(csv_file.wallet_id) = 2
    /\ csv_file.wallet_id[1] # csv_file.wallet_id[2]
    /\ Cardinality(Requested) = 1
    /\ features_df # <<>>

ScoreInRange ==
    pc = "done" =>
        \A i \in 1..Len(output.rows) :
            /\ ~IsNaN(output.rows[i].score)
            /\ RLeq(Rat(0), output.rows[i].score)
            /\ RLeq(output.rows[i].score, Rat(1000))

ScoreInRangeWitness ==
    /\ pc = "done"
    /\ \E i \in 1..Len(features_df) : RLess(Rat(1), features_df[i].borrow_deposit_ratio)
    /\ \E i \in 1..Len(features_df) : RLess(features_df[i].deposit_total, Rat(0))
    /\ \E i \in 1..Len(output.rows) : output.rows[i].score = Rat(1000)

\* C5: a second run on the same files writes the same rows in the same
\* order as the first.
SameOutputOnRerun ==
    (run > 1 /\ pc = "done") => output.rows = previous.rows

\* C6: the output file changes only once load_data, extract_features and
\* score_wallets have each returned once, in that order, and without an
\* error; a run that ends in a terminal error leaves the file as it found it.
OutputAfterAllStages ==
    /\ [][output' # output => (pc = "scored" /\ calls = Stages /\ error = "none")]_vars
    /\ [](pc = "failed" => (output = previous /\ error # "none"))
    /\ [](pc = "done" => (calls = Stages /\ error = "none"))

OutputAfterAllStagesWitness ==
    /\ pc = "done"
    /\ output.written
    /\ output.rows # <<>>

\* C7: among the wallets with features, when two raw scores differ the
\* minimum raw score is scored 0, the maximum 1000 and a larger raw score
\* never gets a smaller score; when they all share one raw score (or it is
\* undefined for all), every one of them is scored 0.
ScoreOf(w) == scores_df[CHOOSE i \in 1..Len(scores_df) : scores_df[i].wallet_id = w].score

RescaledLinearly ==
    (pc \in {"scored", "done"} /\ features_df # <<>>) =>
        LET rows == 1..Len(features_df)
            raws == {features_df[i].score_raw : i \in rows}
        IN  IF Cardinality(raws) >= 2
            THEN \A i \in rows :
                    /\ (\A j \in rows : RLeq(features_df[i].score_raw, features_df[j].score_raw))
                          => ScoreOf(features_df[i].wallet) = Rat(0)
                    /\ (\A j \in rows : RLeq(features_df[j].score_raw, features_df[i].score_raw))
                          => ScoreOf(features_df[i].wallet) = Rat(1000)
                    /\ \A j \in rows :
                          RLess(features_df[j].score_raw, features_df[i].score_raw)
                              => RLeq(ScoreOf(features_df[j].wallet), ScoreOf(features_df[i].wallet))
            ELSE \A i \in rows : ScoreOf(features_df[i].wallet) = Rat(0)

RescaledLinearlyWitness ==
    /\ pc = "scored"
    /\ Len(features_df) = 3
    /\ Cardinality({features_df[i].score_raw : i \in 1..Len(features_df)}) = 3
    /\ \E i \in 1..Len(scores_df) :
          RLess(Rat(0), scores_df[i].score) /\ RLess(scores_df[i].score, Rat(1000))

\* C8: a requested wallet without a surviving transaction is scored exactly
\* 0.0, whatever the other wallets are scored.
InactiveWalletScoresZero ==
    pc = "done" =>
        \A i \in 1..Len(output.rows) :
            ~HasRecords(output.rows[i].wallet_id) => output.rows[i].score = Rat(0)

InactiveWalletScoresZeroWitness ==
    /\ pc = "done"
    /\ \E i \in 1..Len(json_file.data) : Lower(json_file.data[i].userWallet) = "0xc"
    /\ ~HasRecords("0xc")
    /\ \E i \in 1..Len(output.rows) :
          output.rows[i].wallet_id = "0xc" /\ output.rows[i].score = Rat(0)
    /\ \E i \in 1..Len(output.rows) : output.rows[i].score = Rat(1000)

\* C2: a transaction that passes rules 1-3 and whose amount or price is not
\* a decimal number does not abort the run; it is kept with usd_value 0 and
\* counted in num_tx.
Unparseable(s) == s \notin {Absent, Null} /\ s \notin DOMAIN DecimalStrings

Malformed ==
    {i \in Surviving : \/ Unparseable(json_file.data[i].amount)
                       \/ Unparseable(json_file.data[i].assetPriceUSD)}

MalformedAmountKept ==
    (FilesReadable /\ Malformed # {} /\ pc # "start") =>
        /\ pc # "failed"
        /\ error = "none"
        /\ Len(df) = Cardinality(Surviving)
        /\ Cardinality({i \in 1..Len(df) : df[i].usd_value = Rat(0)}) >= Cardinality(Malformed)
        /\ pc \in {"featured", "scored", "done"} =>
              \A i \in 1..Len(features_df) :
                  features_df[i].num_tx =
                      Cardinality({k \in Surviving :
                          Lower(json_file.data[k].userWallet) = features_df[i].wallet})

\* C9: every canonical record has usd_value >= 0.
UsdValueNonNegative ==
    \A i \in 1..Len(df) : RLeq(Rat(0), df[i].usd_value)

\* C10: unique_assets is the number of distinct non-empty asset symbols of
\* the wallet's records.
UniqueAssetsNonEmpty ==
    pc \in {"featured", "scored", "done"} =>
        \A i \in 1..Len(features_df) :
            features_df[i].unique_assets =
                Cardinality({df[k].asset : k \in {n \in 1..Len(df) : df[n].wallet = features_df[i].wallet}}
                                \ {"", Null})

====
